---- MODULE Spec2Model ----
(***************************************************************************)
(* A model of blobs (src/main.rs): blobs hanging from grappling hooks in a *)
(* rectangular arena.  The state is GameState.blobs; the operations are    *)
(* EventHandler::update (one tick of every blob), mouse_motion_event and   *)
(* mouse_button_down_event.                                                *)
(*                                                                         *)
(* f32 values are modelled in fixed point.  A Point2 (center, hook point,  *)
(* cursor) counts units of 1/PS pixel; a Vector2 that is a velocity, an    *)
(* acceleration or a direction counts units of 1/VS.  Every product and    *)
(* quotient rounds toward zero, as a symmetric stand-in for f32 rounding.  *)
(* The f32 NaN that Vector2::normalize yields for the zero vector is kept  *)
(* as a value of its own (nan = TRUE): it propagates through arithmetic    *)
(* and every comparison with it is false.                                  *)
(***************************************************************************)
EXTENDS Integers, FiniteSets, TLC

VARIABLES blobs, ticks, last, pre

vars == <<blobs, ticks, last, pre>>

(***************************************************************************)
(* Program constants.                                                      *)
(***************************************************************************)
SPRING_CONST == 20
SPRING_EQ_LEN == 40
\* DAMPING_CONST = 0.01 = 1 / DAMPING_DIV
DAMPING_DIV == 100
G == 10
HOOK_TRAVELING_SPEED == 150
BLOB_RADIUS == 40
SCREEN_W == 1000
SCREEN_H == 1000
LOCAL_ID == 0
\* dt = 0.1 = 1 / DT_DIV
DT_DIV == 10

(***************************************************************************)
(* Fixed-point resolutions of the f32 quantities.                          *)
(***************************************************************************)
PS == 16
VS == 1024

(***************************************************************************)
(* Bounds of the model.                                                    *)
(***************************************************************************)
MaxTicks == 4

(***************************************************************************)
(* Vectors and points.                                                     *)
(***************************************************************************)
Vec(x, y) == [x |-> x, y |-> y, nan |-> FALSE]

NaNVec == [x |-> 0, y |-> 0, nan |-> TRUE]

Zeros == Vec(0, 0)

\* A pixel position as a Point2.
Px(x, y) == Vec(x * PS, y * PS)

Quot(a, b) == IF a >= 0 THEN a \div b ELSE -((-a) \div b)

Add(a, b) == IF a.nan \/ b.nan THEN NaNVec ELSE Vec(a.x + b.x, a.y + b.y)

Sub(a, b) == IF a.nan \/ b.nan THEN NaNVec ELSE Vec(a.x - b.x, a.y - b.y)

Mul(k, a) == IF a.nan THEN NaNVec ELSE Vec(k * a.x, k * a.y)

Div(a, k) == IF a.nan THEN NaNVec ELSE Vec(Quot(a.x, k), Quot(a.y, k))

Dot(a, b) == a.x * b.x + a.y * b.y

\* A direction or velocity as a displacement of points.
ToPoint(v) == IF v.nan THEN NaNVec ELSE Vec(Quot(v.x * PS, VS), Quot(v.y * PS, VS))

\* v * dt as a displacement of points.
TimesDt(v) ==
    IF v.nan THEN NaNVec
    ELSE Vec(Quot(v.x * PS, VS * DT_DIV), Quot(v.y * PS, VS * DT_DIV))

RECURSIVE SqrtIter(_, _)
SqrtIter(n, x) ==
    LET y == (x + n \div x) \div 2
    IN  IF y >= x THEN x ELSE SqrtIter(n, y)

\* floor(sqrt(n))
Isqrt(n) == IF n = 0 THEN 0 ELSE SqrtIter(n, IF n > 46340 THEN 46340 ELSE n)

NormSq(v) == v.x * v.x + v.y * v.y

\* The power of two k that brings k * k * s into [2^29, 2^31), for s > 0: the
\* norm keeps fifteen significant bits whatever its size, as a float does.
RECURSIVE Shift(_, _)
Shift(s, k) == IF s >= 536870912 THEN k ELSE Shift(4 * s, 2 * k)

NormScale(v) == IF NormSq(v) = 0 THEN 1 ELSE Shift(NormSq(v), 1)

\* Vector2::norm of a non-NaN vector, times NormScale(v), rounded down.
ScaledNorm(v) == Isqrt(NormSq(v) * NormScale(v) * NormScale(v))

\* Vector2::normalize: v / v.norm(); 0/0 is NaN.
Normalize(v) ==
    IF v.nan THEN NaNVec
    ELSE IF NormSq(v) = 0 THEN NaNVec
    ELSE Vec(Quot(v.x * NormScale(v) * VS, ScaledNorm(v)),
             Quot(v.y * NormScale(v) * VS, ScaledNorm(v)))

(***************************************************************************)
(* HookState.                                                              *)
(***************************************************************************)
Hooked(p) == [kind |-> "Hooked", point |-> p, vel |-> Zeros]

Traveling(p, v) == [kind |-> "Traveling", point |-> p, vel |-> v]

NoHook == [kind |-> "None", point |-> Zeros, vel |-> Zeros]

(***************************************************************************)
(* Wall collisions.                                                        *)
(***************************************************************************)
None == [some |-> FALSE, point |-> Zeros, normal |-> Zeros]

Some(p, n) == [some |-> TRUE, point |-> p, normal |-> n]

\* A variant: a blob that just touches a wall collides with it.
wall_blob_collision_closed(c) ==
    IF c.nan THEN None
    ELSE IF c.x <= BLOB_RADIUS * PS THEN Some(Vec(0, c.y), Vec(1, 0))
    ELSE IF c.x >= (SCREEN_W - BLOB_RADIUS) * PS
         THEN Some(Vec(SCREEN_W * PS, c.y), Vec(-1, 0))
    ELSE IF c.y <= BLOB_RADIUS * PS THEN Some(Vec(c.x, 0), Vec(0, 1))
    ELSE IF c.y >= (SCREEN_H - BLOB_RADIUS) * PS
         THEN Some(Vec(c.x, SCREEN_H * PS), Vec(0, -1))
    ELSE None

\* wall_blob_collision: normals are the exact axis vectors (+-1, 0), (0, +-1).
wall_blob_collision(c) ==
    IF c.nan THEN None
    ELSE IF c.x < BLOB_RADIUS * PS THEN Some(Vec(0, c.y), Vec(1, 0))
    ELSE IF c.x > (SCREEN_W - BLOB_RADIUS) * PS
         THEN Some(Vec(SCREEN_W * PS, c.y), Vec(-1, 0))
    ELSE IF c.y < BLOB_RADIUS * PS THEN Some(Vec(c.x, 0), Vec(0, 1))
    ELSE IF c.y > (SCREEN_H - BLOB_RADIUS) * PS
         THEN Some(Vec(c.x, SCREEN_H * PS), Vec(0, -1))
    ELSE None

\* A variant: a point on the boundary counts as a collision.
wall_point_collision_closed(p) ==
    IF p.nan THEN None
    ELSE IF p.x <= 0 THEN Some(Vec(0, p.y), Zeros)
    ELSE IF p.x >= SCREEN_W * PS THEN Some(Vec(SCREEN_W * PS, p.y), Zeros)
    ELSE IF p.y <= 0 THEN Some(Vec(p.x, 0), Zeros)
    ELSE IF p.y >= SCREEN_H * PS THEN Some(Vec(p.x, SCREEN_H * PS), Zeros)
    ELSE None

wall_point_collision(p) ==
    IF p.nan THEN None
    ELSE IF p.x < 0 THEN Some(Vec(0, p.y), Zeros)
    ELSE IF p.x > SCREEN_W * PS THEN Some(Vec(SCREEN_W * PS, p.y), Zeros)
    ELSE IF p.y < 0 THEN Some(Vec(p.x, 0), Zeros)
    ELSE IF p.y > SCREEN_H * PS THEN Some(Vec(p.x, SCREEN_H * PS), Zeros)
    ELSE None

(***************************************************************************)
(* Blob::update.                                                           *)
(***************************************************************************)
\* A variant: the spring also pulls toward the tip of a hook in flight.
AccSpringInFlight(b) ==
    IF b.hook.kind \in {"Hooked", "Traveling"}
    THEN LET spring_vec == Sub(b.hook.point, b.center)
             k == NormScale(spring_vec)
             n == ScaledNorm(spring_vec)
         IN  IF spring_vec.nan THEN NaNVec
             ELSE IF n < SPRING_EQ_LEN * PS * k THEN Zeros
             ELSE LET q == Quot((n - SPRING_EQ_LEN * PS * k) * VS, n)
                  IN  Vec(Quot(q * SPRING_CONST * (spring_vec.x * k), n),
                          Quot(q * SPRING_CONST * (spring_vec.y * k), n))
    ELSE Zeros

\* A variant: a spring of rest length 0, which pulls however short it is and
\* divides 0 by 0 at length 0.
AccSpringNoRest(b) ==
    IF b.hook.kind = "Hooked"
    THEN LET spring_vec == Sub(b.hook.point, b.center)
             k == NormScale(spring_vec)
             n == ScaledNorm(spring_vec)
         IN  IF spring_vec.nan \/ n = 0 THEN NaNVec
             ELSE Vec(Quot(VS * SPRING_CONST * (spring_vec.x * k), n),
                      Quot(VS * SPRING_CONST * (spring_vec.y * k), n))
    ELSE Zeros

\* acc_spring (lines 36-45), with n = k * spring_vec.norm()
AccSpring(b) ==
    IF b.hook.kind = "Hooked"
    THEN LET spring_vec == Sub(b.hook.point, b.center)
             k == NormScale(spring_vec)
             n == ScaledNorm(spring_vec)
         IN  IF spring_vec.nan THEN NaNVec
             ELSE IF n < SPRING_EQ_LEN * PS * k THEN Zeros
             ELSE LET q == Quot((n - SPRING_EQ_LEN * PS * k) * VS, n)
                  IN  Vec(Quot(q * SPRING_CONST * (spring_vec.x * k), n),
                          Quot(q * SPRING_CONST * (spring_vec.y * k), n))
    ELSE Zeros

AccDamping(b) == Div(Mul(-1, b.vel), DAMPING_DIV)

\* A variant: gravity along -y, which is up on the screen.
AccGravityUp == Vec(0, -(G * VS))

AccGravity == Vec(0, G * VS)

AccTot(b) == Add(Add(AccSpring(b), AccGravity), AccDamping(b))

\* self.vel += acc_tot * dt
VelStep(b) == Add(b.vel, Div(AccTot(b), DT_DIV))

\* A variant: explicit Euler, the center moves by the velocity the update
\* started with.
CenterStepExplicit(b) == Add(b.center, TimesDt(b.vel))

\* self.center += self.vel * dt, with the new velocity
CenterStep(b) == Add(b.center, TimesDt(VelStep(b)))

\* A variant: the factor 2 is missing, the blob loses its velocity along the
\* normal and slides.
ReflectInelastic(v, n) == Sub(v, Mul(Dot(v, n), n))

\* Mirror velocity in the plane defined by the normal vector.
Reflect(v, n) == Sub(v, Mul(2 * Dot(v, n), n))

VelAfterWalls(b) ==
    LET c == wall_blob_collision(CenterStep(b))
    IN  IF c.some THEN Reflect(VelStep(b), c.normal) ELSE VelStep(b)

\* A variant: any hook that is not in flight is dropped.
HookStepReset(h) ==
    IF h.kind = "Traveling"
    THEN LET hook_point == Add(h.point, TimesDt(h.vel))
             c == wall_point_collision(hook_point)
         IN  IF c.some THEN Hooked(c.point) ELSE Traveling(hook_point, h.vel)
    ELSE NoHook

\* A variant: the walls are tested against the tip before it is advanced.
HookStepStale(h) ==
    IF h.kind = "Traveling"
    THEN LET hook_point == Add(h.point, TimesDt(h.vel))
             c == wall_point_collision(h.point)
         IN  IF c.some THEN Hooked(c.point) ELSE Traveling(hook_point, h.vel)
    ELSE h

\* A variant: gravity acts on the tip in flight.
HookStepHeavy(h) ==
    IF h.kind = "Traveling"
    THEN LET hook_vel == Add(h.vel, Div(AccGravity, DT_DIV))
             hook_point == Add(h.point, TimesDt(hook_vel))
             c == wall_point_collision(hook_point)
         IN  IF c.some THEN Hooked(c.point) ELSE Traveling(hook_point, hook_vel)
    ELSE h

\* Update hook position (lines 66-73)
HookStep(h) ==
    IF h.kind = "Traveling"
    THEN LET hook_point == Add(h.point, TimesDt(h.vel))
             c == wall_point_collision(hook_point)
         IN  IF c.some THEN Hooked(c.point) ELSE Traveling(hook_point, h.vel)
    ELSE h

\* A variant: the hook is advanced first, and the spring already pulls on
\* the anchor it has just found.
UpdateBlobHookFirst(b, mouse_pos) ==
    LET hooked == [b EXCEPT !.hook = HookStep(b.hook)]
    IN  [center  |-> CenterStep(hooked),
         vel     |-> VelAfterWalls(hooked),
         aim_vec |-> Normalize(Sub(mouse_pos, CenterStep(hooked))),
         hook    |-> hooked.hook]

\* Blob::update with the cursor at mouse_pos.
UpdateBlob(b, mouse_pos) ==
    [center  |-> CenterStep(b),
     vel     |-> VelAfterWalls(b),
     aim_vec |-> Normalize(Sub(mouse_pos, CenterStep(b))),
     hook    |-> HookStep(b.hook)]

(***************************************************************************)
(* GameState.                                                              *)
(***************************************************************************)
\* GameState::new
NewBlobs ==
    (0 :> [center |-> Px(100, 100), vel |-> Zeros,
           aim_vec |-> Vec(VS, 0), hook |-> Hooked(Px(400, 0))])
    @@ (10 :> [center |-> Px(200, 100), vel |-> Vec(10 * VS, 10 * VS),
               aim_vec |-> Vec(VS, 0), hook |-> Hooked(Px(0, 0))])

\* Cursor positions the environment reports.
MousePos == {Px(100, 100), Px(100, 0), Px(0, 0), Px(100, 1000)}

\* HashMap::entry(id).and_modify(f): no entry, no change.
AndModify(m, id, new) ==
    IF id \in DOMAIN m THEN [m EXCEPT ![id] = new] ELSE m

\* EventHandler::update: every blob is updated, all with the same cursor.
UpdateAll(bl, mouse_pos) ==
    [id \in DOMAIN bl |-> UpdateBlob(bl[id], mouse_pos)]

\* The closure of mouse_motion_event.
Aim(b, cursor_pos) ==
    [b EXCEPT !.aim_vec = Normalize(Sub(cursor_pos, b.center))]

\* A variant: every blob aims at the cursor.
MotionEvery(bl, cursor_pos) == [id \in DOMAIN bl |-> Aim(bl[id], cursor_pos)]

MotionAll(bl, cursor_pos) ==
    IF LOCAL_ID \in DOMAIN bl
    THEN AndModify(bl, LOCAL_ID, Aim(bl[LOCAL_ID], cursor_pos))
    ELSE bl

\* A variant: only an anchored hook is released.
ReleaseHookAnchored(b) ==
    IF b.hook.kind = "Hooked" THEN [b EXCEPT !.hook = NoHook] ELSE b

\* The closure of the right button.
ReleaseHook(b) == [b EXCEPT !.hook = NoHook]

\* A variant: the right button removes the local blob from the map.
ReleaseAllRemove(bl) == [id \in DOMAIN bl \ {LOCAL_ID} |-> bl[id]]

ReleaseAll(bl) ==
    IF LOCAL_ID \in DOMAIN bl
    THEN AndModify(bl, LOCAL_ID, ReleaseHook(bl[LOCAL_ID]))
    ELSE bl

\* A variant: the tip starts at the center.
LaunchHookFromCenter(b) ==
    [b EXCEPT !.hook = Traveling(b.center, Mul(HOOK_TRAVELING_SPEED, b.aim_vec))]

\* The closure of the left button.
LaunchHook(b) ==
    [b EXCEPT !.hook = Traveling(Add(b.center, ToPoint(b.aim_vec)),
                                 Mul(HOOK_TRAVELING_SPEED, b.aim_vec))]

LaunchAll(bl) ==
    IF LOCAL_ID \in DOMAIN bl
    THEN AndModify(bl, LOCAL_ID, LaunchHook(bl[LOCAL_ID]))
    ELSE bl

\* n updates in a row with the cursor resting at mouse_pos.
RECURSIVE Updates(_, _, _)
Updates(bl, n, mouse_pos) ==
    IF n = 0 THEN bl
    ELSE IF n = 1 THEN UpdateAll(bl, mouse_pos)
    ELSE LET half == Updates(bl, n \div 2, mouse_pos)
         IN  \* always true: has half computed before the second leg starts
             IF half = half
             THEN Updates(half, n - n \div 2, mouse_pos)
             ELSE half

Init ==
    /\ blobs = NewBlobs
    /\ ticks = 0
    /\ last = "new"
    /\ pre = NewBlobs

\* EventHandler::update
Tick ==
    /\ ticks < MaxTicks
    /\ \E mouse_pos \in MousePos : blobs' = UpdateAll(blobs, mouse_pos)
    /\ ticks' = ticks + 1
    /\ last' = "tick"
    /\ pre' = blobs

\* EventHandler::mouse_motion_event
MouseMotion ==
    /\ \E cursor_pos \in MousePos : blobs' = MotionAll(blobs, cursor_pos)
    /\ last' = "motion"
    /\ pre' = blobs
    /\ UNCHANGED ticks

\* The buttons of interest: the handler ignores every button but two.
MouseButton == {"Left", "Right", "Middle"}

\* EventHandler::mouse_button_down_event
MouseButtonDown ==
    /\ \E button \in MouseButton :
          /\ blobs' = IF button = "Right" THEN ReleaseAll(blobs)
                      ELSE IF button = "Left" THEN LaunchAll(blobs)
                      ELSE blobs
          /\ last' = IF button = "Right" THEN "release"
                     ELSE IF button = "Left" THEN "launch"
                     ELSE "button"
    /\ pre' = blobs
    /\ UNCHANGED ticks

Next == Tick \/ MouseMotion \/ MouseButtonDown

Spec == Init /\ [][Next]_vars

(***************************************************************************)
(* Runs in progress.  Each is the state GameState::new leads to under the  *)
(* events named, computed by the operations above: the walls are forty     *)
(* and more updates away from a new game.                                  *)
(***************************************************************************)
\* Aim at the corner (0, 0), left click, 8 updates: the hook is in flight
\* toward the corner.
Shot == Updates(LaunchAll(MotionAll(NewBlobs, Px(0, 0))), 8, Px(0, 0))

\* Aim straight up, left click, 5 updates: the hook is in flight to the top.
ShotUp == Updates(LaunchAll(MotionAll(NewBlobs, Px(100, 0))), 5, Px(100, 0))

\* Aim straight up, left click, hang for 35 updates, right click.
LetGo ==
    ReleaseAll(Updates(LaunchAll(MotionAll(NewBlobs, Px(100, 0))), 35, Px(100, 0)))

\* ... and n - 35 updates later: the local blob has fallen, bounced off the
\* floor (first at update 169) and, from update 1020, stays in the floor,
\* where it sinks; the other blob swings on its first hook.
Swing(n) == Updates(LetGo, n - 35, Px(0, 0))

\* Aim at the corner (W, 0), left click, n updates hanging on that hook: the
\* local blob swings into the right wall (first at update 170) and later
\* into the top wall (first at update 421).
Hang(n) == Updates(LaunchAll(MotionAll(NewBlobs, Px(SCREEN_W, 0))), n, Px(SCREEN_W, 0))

\* Aim at the corner (0, H), left click, n updates hanging on that hook: at
\* update 1014 the local blob is within BLOB_RADIUS of the left wall and of
\* the floor at once.
HangLow(n) ==
    Updates(LaunchAll(MotionAll(NewBlobs, Px(0, SCREEN_H))), n, Px(0, SCREEN_H))

\* Swing(1017): one update before the center is exactly BLOB_RADIUS above the
\* floor line, two before the collisions that never end;
\* Swing(1468): the center is 16 pixels above the floor line y = H, so that a
\* hook shot straight down lands exactly on it; Swing(1682): three updates
\* before the center is exactly at (100, H); Swing(1708): one update before
\* the center is more than a pixel below the floor line.
RunStates ==
    {NewBlobs, Shot, ShotUp, Swing(1017), Swing(1468), Swing(1682), Swing(1708),
     Hang(168), Hang(419), HangLow(1012)}

InitRun ==
    /\ blobs \in RunStates
    /\ ticks = 0
    /\ last = "new"
    /\ pre = blobs

SpecRun == InitRun /\ [][Next]_vars

(***************************************************************************)
(* Properties.  last is the operation that led to the state and pre the    *)
(* blobs it started from.                                                  *)
(***************************************************************************)
Ids == DOMAIN blobs

OutsideArena(p) ==
    /\ ~p.nan
    /\ (p.x < 0 \/ p.x > SCREEN_W * PS \/ p.y < 0 \/ p.y > SCREEN_H * PS)

InArena(p) ==
    /\ ~p.nan
    /\ 0 <= p.x /\ p.x <= SCREEN_W * PS
    /\ 0 <= p.y /\ p.y <= SCREEN_H * PS

OnEdgeLine(p) == ~p.nan /\ (p.x \in {0, SCREEN_W * PS} \/ p.y \in {0, SCREEN_H * PS})

\* The tip of a Traveling hook after one more dt.
AdvancedTip(h) == Add(h.point, TimesDt(h.vel))

\* vel + (G * down - DAMPING_CONST * vel) * dt
FreeVel(b) ==
    Vec(b.vel.x + Quot(Quot(-b.vel.x, DAMPING_DIV), DT_DIV),
        b.vel.y + Quot(G * VS + Quot(-b.vel.y, DAMPING_DIV), DT_DIV))

\* The update of blob id took place with no spring acceleration: the center
\* moved by the free velocity, and the velocity is the free one, mirrored or
\* not by a wall.
NoSpringTick(id) ==
    LET v == FreeVel(pre[id])
        a == blobs[id]
    IN  /\ a.center = Add(pre[id].center, TimesDt(v))
        /\ ~a.vel.nan
        /\ a.vel.x \in {v.x, -v.x}
        /\ a.vel.y \in {v.y, -v.y}

\* C1: in an update a Traveling hook becomes Hooked exactly when its advanced
\* tip is strictly outside the arena (a tip inside or on the boundary stays
\* Traveling), and the anchor then has x in {0, W} or y in {0, H}.
C1_AnchorsOnExit ==
    last = "tick" =>
        \A id \in Ids :
            pre[id].hook.kind = "Traveling" =>
                /\ blobs[id].hook.kind \in {"Hooked", "Traveling"}
                /\ blobs[id].hook.kind = "Hooked"
                      <=> OutsideArena(AdvancedTip(pre[id].hook))
                /\ blobs[id].hook.kind = "Hooked" => OnEdgeLine(blobs[id].hook.point)

C1_Witness ==
    /\ last = "tick"
    /\ \E id \in Ids :
          /\ pre[id].hook.kind = "Traveling"
          /\ InArena(pre[id].hook.point)
          /\ blobs[id].hook.kind = "Hooked"

\* C2: an update leaves a Hooked or None hook as it is, anchor included; such
\* a hook changes only by a launch or a release.
C2_AnchoredAndDetachedPersist ==
    \A id \in Ids :
        pre[id].hook.kind \in {"Hooked", "None"} =>
            /\ last = "tick" => blobs[id].hook = pre[id].hook
            /\ blobs[id].hook # pre[id].hook => last \in {"launch", "release"}

C2_Witness ==
    /\ last = "tick"
    /\ ticks >= 2
    /\ \E id \in Ids :
          /\ pre[id].hook.kind = "Hooked"
          /\ blobs[id].hook = pre[id].hook
          /\ blobs[id].center # pre[id].center
          /\ blobs[id].vel # pre[id].vel

\* C3: a launch sets the local blob's hook to
\* Traveling(center + aim_vec, HOOK_TRAVELING_SPEED * aim_vec) whatever the
\* hook was, and changes neither center nor vel nor aim_vec.
C3_Launch ==
    last = "launch" =>
        LET b == pre[LOCAL_ID]
            a == blobs[LOCAL_ID]
        IN  /\ a.hook.kind = "Traveling"
            /\ a.hook.point = Add(b.center, ToPoint(b.aim_vec))
            /\ a.hook.vel = Mul(HOOK_TRAVELING_SPEED, b.aim_vec)
            /\ a.center = b.center
            /\ a.vel = b.vel
            /\ a.aim_vec = b.aim_vec

C3_Witness ==
    /\ last = "launch"
    /\ pre[LOCAL_ID].hook.kind = "Traveling"
    /\ blobs[LOCAL_ID].hook # pre[LOCAL_ID].hook
    /\ ~blobs[LOCAL_ID].hook.point.nan

\* C4: a release sets the local blob's hook to None whatever it was and
\* changes nothing else of the blob, also right after a launch; the update
\* after it applies no spring acceleration.
C4_Release ==
    /\ last = "release" =>
          /\ blobs[LOCAL_ID].hook = NoHook
          /\ blobs[LOCAL_ID].center = pre[LOCAL_ID].center
          /\ blobs[LOCAL_ID].vel = pre[LOCAL_ID].vel
          /\ blobs[LOCAL_ID].aim_vec = pre[LOCAL_ID].aim_vec
    /\ (last = "tick" /\ pre[LOCAL_ID].hook = NoHook) => NoSpringTick(LOCAL_ID)

\* A release of a hook launched from this very center and aim.
C4_Witness ==
    /\ last = "release"
    /\ pre[LOCAL_ID].hook.kind = "Traveling"
    /\ pre[LOCAL_ID].hook.point = Add(pre[LOCAL_ID].center, ToPoint(pre[LOCAL_ID].aim_vec))
    /\ blobs[LOCAL_ID].hook = NoHook

\* |a| = 1 up to the rounding of Normalize.
IsUnit(a) ==
    /\ ~a.nan
    /\ NormSq(a) >= VS * VS - 4 * VS
    /\ NormSq(a) <= VS * VS + 4 * VS

\* C5: aim_vec is unit-length in every reachable state, also when the cursor
\* is exactly at the blob's center.
C5_AimUnit == \A id \in Ids : IsUnit(blobs[id].aim_vec)

\* C6: every anchor the Traveling -> Hooked transition stores lies in the
\* closed arena, on one of its edges.
C6_AnchorInArena ==
    last = "tick" =>
        \A id \in Ids :
            (pre[id].hook.kind = "Traveling" /\ blobs[id].hook.kind = "Hooked") =>
                InArena(blobs[id].hook.point) /\ OnEdgeLine(blobs[id].hook.point)

\* p with both coordinates brought into the arena.
Clamped(p) ==
    Vec(IF p.x < 0 THEN 0 ELSE IF p.x > SCREEN_W * PS THEN SCREEN_W * PS ELSE p.x,
        IF p.y < 0 THEN 0 ELSE IF p.y > SCREEN_H * PS THEN SCREEN_H * PS ELSE p.y)

\* p with its first coordinate out of range (x before y) set to the wall.
WallPoint(p) ==
    IF p.x < 0 \/ p.x > SCREEN_W * PS THEN Vec(Clamped(p).x, p.y)
    ELSE Vec(p.x, Clamped(p).y)

C8_TipMovesStraight ==
    last = "tick" =>
        \A id \in Ids :
            (pre[id].hook.kind = "Traveling" /\ blobs[id].hook.kind = "Traveling") =>
                /\ blobs[id].hook.vel = pre[id].hook.vel
                /\ blobs[id].hook.point = AdvancedTip(pre[id].hook)

C8_Witness ==
    /\ last = "tick"
    /\ \E id \in Ids :
          /\ pre[id].hook.kind = "Traveling"
          /\ blobs[id].hook.kind = "Traveling"
          /\ ~blobs[id].hook.point.nan
          /\ blobs[id].hook.point # pre[id].hook.point
          /\ blobs[id].aim_vec # pre[id].aim_vec
          /\ blobs[id].vel.y = -FreeVel(pre[id]).y

\* C9: an update that starts with the hook None or Traveling applies no
\* spring acceleration: the velocity changes by (G * down - DAMP * vel) * dt
\* before any wall reflection.
C9_NoSpringUnlessHooked ==
    last = "tick" =>
        \A id \in Ids :
            pre[id].hook.kind \in {"None", "Traveling"} => NoSpringTick(id)

C9_Witness ==
    /\ last = "tick"
    /\ \E id \in Ids :
          /\ pre[id].hook.kind = "Traveling"
          /\ pre[id].vel.y # 0
          /\ Quot(pre[id].vel.y, DAMPING_DIV * DT_DIV) # 0

\* C10: an update that starts with the hook Hooked at p and
\* |p - center| <= SPRING_EQ_LEN applies no spring acceleration, also when
\* p = center.
C10_NoPush ==
    last = "tick" =>
        \A id \in Ids :
            (/\ pre[id].hook.kind = "Hooked"
             /\ NormSq(Sub(pre[id].hook.point, pre[id].center))
                    <= (SPRING_EQ_LEN * PS) * (SPRING_EQ_LEN * PS)) =>
                NoSpringTick(id)

\* The update of a blob whose center is its anchor.
C10_Witness ==
    /\ last = "tick"
    /\ \E id \in Ids :
          /\ pre[id].hook.kind = "Hooked"
          /\ pre[id].hook.point = pre[id].center

\* The centers for which wall_blob_collision reports a collision: less than
\* BLOB_RADIUS inside a wall line, or beyond it.
InWallZone(c) ==
    /\ ~c.nan
    /\ \/ c.x < BLOB_RADIUS * PS
       \/ c.x > (SCREEN_W - BLOB_RADIUS) * PS
       \/ c.y < BLOB_RADIUS * PS
       \/ c.y > (SCREEN_H - BLOB_RADIUS) * PS

\* vel + acc_tot * dt, from the blob at the start of the update.
NewVel(b) ==
    Add(b.vel, Div(Add(Add(AccSpring(b), AccGravity), AccDamping(b)), DT_DIV))

\* C11: an update moves the center by the new velocity v' = vel + acc_tot * dt
\* times dt, and by nothing else: also when the wall check reports a
\* collision, after which the center is still in the wall zone.
C11_SemiImplicitEuler ==
    last = "tick" =>
        \A id \in Ids :
            LET center == Add(pre[id].center, TimesDt(NewVel(pre[id])))
            IN  /\ blobs[id].center = center
                /\ wall_blob_collision(center).some => InWallZone(blobs[id].center)

\* An update with a collision in which the old velocity would have moved the
\* center elsewhere.
C11_Witness ==
    /\ last = "tick"
    /\ \E id \in Ids :
          /\ InWallZone(blobs[id].center)
          /\ TimesDt(NewVel(pre[id])) # TimesDt(pre[id].vel)
          /\ blobs[id].vel # NewVel(pre[id])

Abs(i) == IF i < 0 THEN -i ELSE i

\* v without its component along the unit vector n.
Tangential(v, n) == Sub(v, Mul(Dot(v, n), n))

\* C12: when the wall check of an update reports a collision with normal n,
\* the velocity after the response is the velocity before it (vel + acc_tot *
\* dt) with its component along n negated and its tangential component
\* unchanged; both components keep their magnitude, so the speed is kept.
\* vel (-5, 0) at x = 10 becomes (5, 0).
C12_ReflectionKeepsSpeed ==
    /\ last = "tick" =>
          \A id \in Ids :
              LET c == wall_blob_collision(blobs[id].center)
                  before == NewVel(pre[id])
                  after == blobs[id].vel
              IN  c.some =>
                      /\ Dot(after, c.normal) = -Dot(before, c.normal)
                      /\ Tangential(after, c.normal) = Tangential(before, c.normal)
                      /\ Abs(after.x) = Abs(before.x)
                      /\ Abs(after.y) = Abs(before.y)
    /\ wall_blob_collision(Px(10, 500)).normal = Vec(1, 0)
    /\ Reflect(Vec(-5 * VS, 0), Vec(1, 0)) = Vec(5 * VS, 0)

\* A collision at an angle: the velocity has a part along the normal and a
\* part along the wall.
C12_Witness ==
    /\ last = "tick"
    /\ \E id \in Ids :
          LET c == wall_blob_collision(blobs[id].center)
          IN  /\ c.some
              /\ Dot(NewVel(pre[id]), c.normal) < 0
              /\ Tangential(blobs[id].vel, c.normal) # Zeros
              /\ ~InWallZone(pre[id].center)

\* The walls within less than BLOB_RADIUS of the center c, or behind it.
WallsHit(c) ==
    {w \in {"left", "right", "top", "bottom"} :
        \/ w = "left" /\ c.x < BLOB_RADIUS * PS
        \/ w = "right" /\ c.x > (SCREEN_W - BLOB_RADIUS) * PS
        \/ w = "top" /\ c.y < BLOB_RADIUS * PS
        \/ w = "bottom" /\ c.y > (SCREEN_H - BLOB_RADIUS) * PS}

\* The first of them in the order left, right, top, bottom.
FirstWall(c) ==
    IF "left" \in WallsHit(c) THEN "left"
    ELSE IF "right" \in WallsHit(c) THEN "right"
    ELSE IF "top" \in WallsHit(c) THEN "top"
    ELSE "bottom"

\* The unit normal of a wall, pointing into the arena.
InwardNormal(w) ==
    IF w = "left" THEN Vec(1, 0)
    ELSE IF w = "right" THEN Vec(-1, 0)
    ELSE IF w = "top" THEN Vec(0, 1)
    ELSE Vec(0, -1)

\* c projected onto the line of a wall.
Projection(c, w) ==
    IF w = "left" THEN Vec(0, c.y)
    ELSE IF w = "right" THEN Vec(SCREEN_W * PS, c.y)
    ELSE IF w = "top" THEN Vec(c.x, 0)
    ELSE Vec(c.x, SCREEN_H * PS)

\* What wall_blob_collision is to return for the center c.
WallReport(c) ==
    IF WallsHit(c) = {} THEN None
    ELSE Some(Projection(c, FirstWall(c)), InwardNormal(FirstWall(c)))

\* Coordinates at, next to and far from the lines at BLOB_RADIUS from the
\* walls.
EdgeCoords ==
    {-PS, BLOB_RADIUS * PS - 1, BLOB_RADIUS * PS, BLOB_RADIUS * PS + 1,
     (SCREEN_W - BLOB_RADIUS) * PS - 1, (SCREEN_W - BLOB_RADIUS) * PS,
     (SCREEN_W - BLOB_RADIUS) * PS + 1, (SCREEN_W + 1) * PS}

\* C13: wall_blob_collision reports a collision iff the center has
\* x < RADIUS, x > W - RADIUS, y < RADIUS or y > H - RADIUS (strictly: at
\* distance RADIUS there is none), and then reports one wall, the first in
\* the order left, right, top, bottom, with its inward unit normal and the
\* center projected onto its line: for every center a blob has, and for
\* every center on a grid about the four lines (which no operation changes:
\* it is gone through once, in the states a run starts from).
C13_WallBlobCollision ==
    /\ \A id \in Ids :
          wall_blob_collision(blobs[id].center) = WallReport(blobs[id].center)
    /\ last = "new" =>
          \A x \in EdgeCoords, y \in EdgeCoords :
              wall_blob_collision(Vec(x, y)) = WallReport(Vec(x, y))

\* An update that ends with the center exactly BLOB_RADIUS from a wall line:
\* no collision, the velocity is not mirrored.
C13_Witness ==
    /\ last = "tick"
    /\ \E id \in Ids :
          /\ \/ blobs[id].center.x \in {BLOB_RADIUS * PS, (SCREEN_W - BLOB_RADIUS) * PS}
             \/ blobs[id].center.y \in {BLOB_RADIUS * PS, (SCREEN_H - BLOB_RADIUS) * PS}
          /\ ~wall_blob_collision(blobs[id].center).some
          /\ blobs[id].vel = NewVel(pre[id])
          /\ blobs[id].vel.y # 0

\* The blob map without the local blob.
Others == [id \in Ids \ {LOCAL_ID} |-> blobs[id]]

\* C14: a mouse event (motion, left, right or another button) leaves every
\* blob but the local one as it was; the hook of every other blob is, in
\* every state, the Hooked one it was constructed with; and on a map that
\* lacks LOCAL_ID the three handlers change nothing.
C14_OnlyLocalBlob ==
    /\ last \in {"motion", "launch", "release", "button"} =>
          \A id \in Ids \ {LOCAL_ID} : blobs[id] = pre[id]
    /\ \A id \in Ids \ {LOCAL_ID} :
          /\ blobs[id].hook.kind = "Hooked"
          /\ blobs[id].hook = NewBlobs[id].hook
    /\ \A cursor_pos \in MousePos : MotionAll(Others, cursor_pos) = Others
    /\ LaunchAll(Others) = Others
    /\ ReleaseAll(Others) = Others

\* A motion after some updates that turns the local blob's aim, while another
\* blob aims elsewhere than at the cursor.
C14_Witness ==
    /\ last = "motion"
    /\ ticks >= 2
    /\ blobs[LOCAL_ID].aim_vec # pre[LOCAL_ID].aim_vec
    /\ ~blobs[LOCAL_ID].aim_vec.nan
    /\ \E id \in Ids \ {LOCAL_ID}, cursor_pos \in MousePos :
          /\ blobs[id].center # NewBlobs[id].center
          /\ blobs[LOCAL_ID] = Aim(pre[LOCAL_ID], cursor_pos)
          /\ blobs[id] # Aim(pre[id], cursor_pos)

\* C15: the blob map has, in every state, the identifiers GameState::new
\* inserted, whatever updates and mouse events took place; and a mouse event
\* on a map that lacks LOCAL_ID inserts nothing.
C15_IdsFixed ==
    /\ Ids = DOMAIN NewBlobs
    /\ DOMAIN pre = DOMAIN NewBlobs
    /\ \A cursor_pos \in MousePos :
          DOMAIN MotionAll(Others, cursor_pos) = Ids \ {LOCAL_ID}
    /\ DOMAIN LaunchAll(Others) = Ids \ {LOCAL_ID}
    /\ DOMAIN ReleaseAll(Others) = Ids \ {LOCAL_ID}

\* After updates, a launch and a release: both blobs are there, the local
\* one without a hook.
C15_Witness ==
    /\ last = "release"
    /\ ticks >= 2
    /\ pre[LOCAL_ID].hook.kind = "Traveling"
    /\ blobs[LOCAL_ID].hook = NoHook
    /\ Cardinality(Ids) = 2

\* The number i / VS is within a hundredth of thousandths / 1000.
Near(i, thousandths) == Abs(1000 * i - thousandths * VS) <= 10 * VS

\* The first update of a new game: the local blob starts at (100, 100), at
\* rest, Hooked at (400, 0).
FirstUpdate ==
    /\ last = "tick"
    /\ pre = NewBlobs
    /\ pre[LOCAL_ID].center = Px(100, 100)
    /\ pre[LOCAL_ID].vel = Zeros
    /\ pre[LOCAL_ID].hook = Hooked(Px(400, 0))

\* The displacement, gravity and damping the scenario names.
ScenarioForces ==
    /\ Sub(pre[LOCAL_ID].hook.point, pre[LOCAL_ID].center) = Px(300, -100)
    /\ AccGravity = Vec(0, 10 * VS)
    /\ AccDamping(pre[LOCAL_ID]) = Zeros

\* C16, as claimed: the first update of a new game gives the local blob the
\* velocity (1.66, -0.087), the y-component negative.
C16_VelocityAsClaimed ==
    FirstUpdate =>
        /\ ScenarioForces
        /\ Near(blobs[LOCAL_ID].vel.x, 1660)
        /\ blobs[LOCAL_ID].vel.y < 0
        /\ Near(blobs[LOCAL_ID].vel.y, -87)

\* C16, amended: the first update of a new game gives the local blob the
\* velocity (1.657, 0.448): the spring accelerates it by
\* 20 * (316.23 - 40) / 316.23^2 * (300, -100) = (16.57, -5.52), gravity by
\* (0, 10), and the y-component is positive.
C16_VelocityAfterFirstUpdate ==
    FirstUpdate =>
        /\ ScenarioForces
        /\ Near(blobs[LOCAL_ID].vel.x, 1657)
        /\ blobs[LOCAL_ID].vel.y > 0
        /\ Near(blobs[LOCAL_ID].vel.y, 448)

C16_Witness ==
    /\ FirstUpdate
    /\ ticks = 1
    /\ blobs[LOCAL_ID].vel # Zeros
    /\ blobs[LOCAL_ID].center.x > pre[LOCAL_ID].center.x

\* C17: the wall check never reports a collision for a blob in more than two
\* updates in a row.  A center in the wall zone is one for which the update
\* that put it there reported a collision (GameState::new puts none there):
\* after two such updates, the second being the last operation, the next
\* update does not end in the zone.
C17_AtMostTwoInARow ==
    [][\A id \in Ids :
          (/\ last = "tick"
           /\ last' = "tick"
           /\ InWallZone(pre[id].center)
           /\ InWallZone(blobs[id].center)) =>
              ~InWallZone(blobs'[id].center)]_vars

\* The spring acceleration the blob b would get were its hook h.
SpringWith(b, h) == AccSpring([b EXCEPT !.hook = h])

\* C18: the spring acceleration of an update is that of the hook the update
\* started with, and the hook is advanced last.  In the update in which a
\* Traveling hook becomes Hooked the blob moves with no spring acceleration;
\* in an update that starts Hooked it moves with the spring acceleration
\* toward that anchor.  Whether a Traveling hook anchors, and where, depends
\* on its own advanced tip alone.
C18_SpringFromHookAtStart ==
    last = "tick" =>
        \A id \in Ids :
            /\ pre[id].hook.kind = "Traveling" =>
                  /\ NoSpringTick(id)
                  /\ blobs[id].hook =
                        IF OutsideArena(AdvancedTip(pre[id].hook))
                        THEN Hooked(WallPoint(AdvancedTip(pre[id].hook)))
                        ELSE Traveling(AdvancedTip(pre[id].hook), pre[id].hook.vel)
            /\ pre[id].hook.kind = "Hooked" =>
                  blobs[id].center =
                      Add(pre[id].center,
                          TimesDt(Add(pre[id].vel,
                                      Div(Add(Add(SpringWith(pre[id], pre[id].hook),
                                                  AccGravity),
                                              AccDamping(pre[id])),
                                          DT_DIV))))

\* The update in which a hook anchors far enough for the spring to pull,
\* had it been in place at the start.
C18_Witness ==
    /\ last = "tick"
    /\ \E id \in Ids :
          /\ pre[id].hook.kind = "Traveling"
          /\ blobs[id].hook.kind = "Hooked"
          /\ Div(SpringWith(pre[id], blobs[id].hook), DT_DIV) # Zeros
          /\ InArena(blobs[id].center)

\* C19: after an update whose wall check reports a collision with normal n,
\* the velocity has no component into the wall: dot(vel, n) >= 0.
C19_VelLeavesWall ==
    last = "tick" =>
        \A id \in Ids :
            LET c == wall_blob_collision(blobs[id].center)
            IN  c.some => Dot(blobs[id].vel, c.normal) >= 0

\* C20: every Traveling hook becomes Hooked after finitely many updates, if
\* no launch or release intervenes.  What an update does to a hook depends
\* on the hook alone (HookStep): a Traveling hook that an update leaves as it
\* is stays Traveling for ever, so the claim requires every Traveling hook
\* of a reachable state to be changed by an update.
C20_TravelingHookAdvances ==
    \A id \in Ids :
        blobs[id].hook.kind = "Traveling" =>
            /\ HookStep(blobs[id].hook) # blobs[id].hook
            /\ UpdateBlob(blobs[id], blobs[id].center).hook # blobs[id].hook

====
